---- MODULE Spec2Model ----
(***************************************************************************)
(* Differential evolution for the few-pixel attack                         *)
(* (src/differential_evolution.py).                                        *)
(*                                                                         *)
(* Arrays are functions over 0..n-1, so that indices are the source's.     *)
(* A population array has shape (num_candidates, num_pixels, dim).  An     *)
(* image has shape (channels, H, W) and is indexed image[c][x][y]; a       *)
(* batch of images is indexed imgs[i][c][x][y].                            *)
(*                                                                         *)
(* Real numbers are fixed-point: the differential weight is F_num / FDen,  *)
(* a colour value v stands for v / ColorOne, coordinates are integers.     *)
(***************************************************************************)
EXTENDS Integers, Sequences, FiniteSets, TLC

VARIABLES img, model, F, parent_coords, parent_pixel_vals, pc, i,
          child_coords, child_pixel_values, ret, prev, gen, call

vars == <<img, model, F, parent_coords, parent_pixel_vals, pc, i,
          child_coords, child_pixel_values, ret, prev, gen, call>>

-----------------------------------------------------------------------------
(* Bounds of the model *)

ImageSize == 3
NumCandidates == 3
NumPixels == 1
NumChannels == 1
MaxGen == 2
FDen == 4
MaxBatch == 3
VariantAgents == 2
VariantPixels == 2

-----------------------------------------------------------------------------
(* Array helpers *)

len(a) == Cardinality(DOMAIN a)

Max(a, b) == IF a >= b THEN a ELSE b

RECURSIVE Pow(_, _)
Pow(b, e) == IF e = 0 THEN 1 ELSE b * Pow(b, e - 1)

\* the colour value 1.0 in fixed point: every a + F*(b - c) of MaxGen
\* generations is then an integer number of units
ColorOne == Pow(FDen, MaxGen)

\* np.rint of num/den (den > 0): round to nearest, halves to the even integer
rint(num, den) ==
    LET q == num \div den
        r == num % den
    IN  IF 2 * r < den THEN q
        ELSE IF 2 * r > den THEN q + 1
        ELSE IF q % 2 = 0 THEN q ELSE q + 1

-----------------------------------------------------------------------------
(* generate_children: one iteration of the loop over i *)

\* np.delete(parent_candidates, i, 0)
np_delete_mut(arr, idx) == [j \in 0..(len(arr) - 2) |-> arr[j]]
np_delete(arr, idx) ==
    [j \in 0..(len(arr) - 2) |-> IF j < idx THEN arr[j] ELSE arr[j + 1]]

\* parents = parent_candidates_[parent_idx], parent_idx drawn from
\* range(len(parent_candidates_)) with replacement
sample_parents(parent_candidates, idx, parent_idx) ==
    LET parent_candidates_ == np_delete(parent_candidates, idx)
    IN  [m \in 0..2 |-> parent_candidates_[parent_idx[m]]]

\* parents[0] + F*(parents[1] - parents[2]), rounded for coordinates
potential_child(parents, F_num, round_) ==
    [j \in DOMAIN parents[0] |-> [d \in DOMAIN parents[0][j] |->
        LET num == FDen * parents[0][j][d]
                   + F_num * (parents[1][j][d] - parents[2][j][d])
        IN  IF round_ THEN rint(num, FDen) ELSE num \div FDen]]

\* child = np.where(np.expand_dims(mask, 1), potential_child, parent_candidates[i])
\* mask holds one boolean per pixel unit (uniform draw < cr_prob)
generate_child(parent_candidates, idx, parent_idx, mask, F_num, round_) ==
    LET parents == sample_parents(parent_candidates, idx, parent_idx)
        pot == potential_child(parents, F_num, round_)
    IN  [j \in DOMAIN parent_candidates[idx] |->
            IF mask[j] THEN pot[j] ELSE parent_candidates[idx][j]]

\* children.append(child)
append(children, child) ==
    [k \in 0..len(children) |-> IF k < len(children) THEN children[k] ELSE child]

-----------------------------------------------------------------------------
(* Boundary repair of evolution_step *)

reflect_negative(v) == IF v < 0 THEN -v ELSE v

reflect_high_mut(v, hi) == IF v > hi THEN 2 * hi - v ELSE v
reflect_high(v, hi) == IF v > hi THEN hi - v ELSE v

\* the two np.where passes over child_coords, element by element
repair_coords_mut(coords, image_size) ==
    [k \in DOMAIN coords |-> [j \in DOMAIN coords[k] |-> [d \in DOMAIN coords[k][j] |->
        LET v == reflect_negative(coords[k][j][d])
        IN  IF v > image_size - 1 THEN -v ELSE v]]]
repair_coords(coords, image_size) ==
    [k \in DOMAIN coords |-> [j \in DOMAIN coords[k] |-> [d \in DOMAIN coords[k][j] |->
        reflect_high(reflect_negative(coords[k][j][d]), image_size - 1)]]]

\* the two np.where passes over child_pixel_values; one stands for 1.0
repair_pixel_values(vals, one) ==
    [k \in DOMAIN vals |-> [j \in DOMAIN vals[k] |-> [d \in DOMAIN vals[k][j] |->
        reflect_high(reflect_negative(vals[k][j][d]), one)]]]

-----------------------------------------------------------------------------
(* generate_image_variants *)

Empty == [k \in {} |-> 0]

\* a.shape[0:2]
shape2(a) == <<len(a), IF len(a) = 0 THEN 0 ELSE len(a[0])>>

\* an index the tensor accepts along an axis of length n; negative ones wrap
valid_index(v, n) == -n <= v /\ v < n
wrap_index(v, n) == IF v < 0 THEN v + n ELSE v

\* new_imgs[i, :, x, y] = torch.from_numpy(pixel_val)
set_pixel_mut(new_imgs, idx, x, y, pixel_val) ==
    [n \in DOMAIN new_imgs |->
        [c \in DOMAIN new_imgs[n] |->
            [xx \in DOMAIN new_imgs[n][c] |->
                [yy \in DOMAIN new_imgs[n][c][xx] |->
                    IF /\ xx = wrap_index(x, len(new_imgs[n][c]))
                       /\ yy = wrap_index(y, len(new_imgs[n][c][xx]))
                    THEN pixel_val[c]
                    ELSE new_imgs[n][c][xx][yy]]]]]
set_pixel(new_imgs, idx, x, y, pixel_val) ==
    [n \in DOMAIN new_imgs |->
        IF n # idx THEN new_imgs[n]
        ELSE [c \in DOMAIN new_imgs[n] |->
            [xx \in DOMAIN new_imgs[n][c] |->
                [yy \in DOMAIN new_imgs[n][c][xx] |->
                    IF /\ xx = wrap_index(x, len(new_imgs[n][c]))
                       /\ yy = wrap_index(y, len(new_imgs[n][c][xx]))
                    THEN pixel_val[c]
                    ELSE new_imgs[n][c][xx][yy]]]]]

\* the two nested loops, flattened: write number k is pixel k % P of
\* candidate k \div P
RECURSIVE write_pixels(_, _, _, _)
write_pixels(new_imgs, coords, vals, k) ==
    LET P == len(coords[0])
        n == k \div P
        j == k % P
    IN  IF k >= len(coords) * P THEN new_imgs
        ELSE write_pixels(
                 set_pixel(new_imgs, n, coords[n][j][0], coords[n][j][1], vals[n][j]),
                 coords, vals, k + 1)

generate_image_variants(image, all_candidate_coords, all_candidate_pixel_vals) ==
    LET H == len(image[0])
        W == len(image[0][0])
        num_candidates == len(all_candidate_coords)
        repeated == [n \in 0..(num_candidates - 1) |-> image]
    IN  IF shape2(all_candidate_coords) # shape2(all_candidate_pixel_vals)
        THEN [outcome |-> "AssertionError", new_imgs |-> Empty]
        ELSE IF \E n \in DOMAIN all_candidate_coords :
                  \E j \in DOMAIN all_candidate_coords[n] :
                     \/ ~valid_index(all_candidate_coords[n][j][0], H)
                     \/ ~valid_index(all_candidate_coords[n][j][1], W)
        THEN [outcome |-> "IndexError", new_imgs |-> Empty]
        ELSE [outcome |-> "ok",
              new_imgs |-> write_pixels(repeated, all_candidate_coords,
                                        all_candidate_pixel_vals, 0)]

-----------------------------------------------------------------------------
(* evaluation_step *)

Classes == {0, 1}

\* logits[:, target_class] - logits[:, actual_class]
divergence(logits, target_class, actual_class) ==
    [k \in DOMAIN logits |-> logits[k][target_class] - logits[k][actual_class]]

\* element k of a vector broadcast against a longer one
bc(vec, k) == IF len(vec) = 1 THEN vec[0] ELSE vec[k]

\* child_divergence >= parent_divergence
child_wins_mut(child_divergence, parent_divergence) == child_divergence > parent_divergence
child_wins(child_divergence, parent_divergence) == child_divergence >= parent_divergence

evaluation_step(parent_logits, child_logits, target_class, actual_class) ==
    LET parent_divergence == divergence(parent_logits, target_class, actual_class)
        child_divergence == divergence(child_logits, target_class, actual_class)
        np_ == len(parent_logits)
        nc_ == len(child_logits)
        n == Max(np_, nc_)
        update_mask == [k \in 0..(n - 1) |->
                           child_wins(bc(child_divergence, k), bc(parent_divergence, k))]
        pick(cls) == [k \in 0..(n - 1) |->
                         IF update_mask[k] THEN bc(child_logits, k)[cls]
                         ELSE bc(parent_logits, k)[cls]]
    IN  IF np_ # nc_ /\ np_ # 1 /\ nc_ # 1
        THEN [outcome |-> "RuntimeError", update_mask |-> Empty,
              new_target_logits |-> Empty, new_actual_logits |-> Empty]
        ELSE [outcome |-> "ok", update_mask |-> update_mask,
              new_target_logits |-> pick(target_class),
              new_actual_logits |-> pick(actual_class)]

-----------------------------------------------------------------------------
(* stopping_criterion *)

\* (flags).nonzero(): the indices that hold TRUE, ascending, from index k on
RECURSIVE nonzero(_, _)
nonzero(flags, k) ==
    IF k >= len(flags) THEN << >>
    ELSE IF flags[k] THEN <<k>> \o nonzero(flags, k + 1)
    ELSE nonzero(flags, k + 1)

exceeds_mut(target, actual) == target >= actual
exceeds(target, actual) == target > actual

stopping_criterion(target_logits, actual_logits) ==
    LET hit == [k \in DOMAIN target_logits |-> exceeds(target_logits[k], actual_logits[k])]
    IN  IF \E k \in DOMAIN hit : hit[k]
        THEN [stop |-> TRUE, best_agent |-> [none |-> FALSE, idx |-> nonzero(hit, 0)]]
        ELSE [stop |-> FALSE, best_agent |-> [none |-> TRUE, idx |-> << >>]]

-----------------------------------------------------------------------------
(* The classifier: an external, deterministic, stateless scoring function. *)
(* A model is a map class -> pixel; the score of a class is the sum over   *)
(* the channels of the image at that pixel.                                *)

classify(m, image) ==
    LET RECURSIVE chan_sum(_, _)
        chan_sum(cls, c) ==
            IF c >= len(image) THEN 0
            ELSE image[c][m[cls][1]][m[cls][2]] + chan_sum(cls, c + 1)
    IN  [cls \in Classes |-> chan_sum(cls, 0)]

\* model(imgs): one row of logits per image of the batch
logits_of(m, imgs) == [k \in DOMAIN imgs |-> classify(m, imgs[k])]

-----------------------------------------------------------------------------
(* evolution_step after the two generate_children calls *)

\* np.where(np.expand_dims(update_mask, (1,2)), child_coords, parent_coords)
select_coords_mut(update_mask, child, parent) ==
    [k \in DOMAIN parent |-> IF update_mask[k] THEN parent[k] ELSE child[k]]
select_coords(update_mask, child, parent) ==
    [k \in DOMAIN parent |-> IF update_mask[k] THEN child[k] ELSE parent[k]]

\* np.where(np.expand_dims(update_mask, (1,2)), child_pixel_values, parent_pixel_vals)
select_pixel_vals_mut(update_mask, child, parent) ==
    [k \in DOMAIN parent |-> child[k]]
select_pixel_vals(update_mask, child, parent) ==
    [k \in DOMAIN parent |-> IF update_mask[k] THEN child[k] ELSE parent[k]]

NoAgent == [none |-> TRUE, idx |-> << >>]

evolution_step(m, image, p_coords, p_vals, raw_coords, raw_vals, target_class, actual_class) ==
    LET image_size == len(image[0])
        c_coords == repair_coords(raw_coords, image_size)
        c_vals == repair_pixel_values(raw_vals, ColorOne)
        parent_imgs == generate_image_variants(image, p_coords, p_vals)
        child_imgs == generate_image_variants(image, c_coords, c_vals)
        raised == IF parent_imgs.outcome # "ok" THEN parent_imgs.outcome
                  ELSE child_imgs.outcome
        ev == evaluation_step(logits_of(m, parent_imgs.new_imgs),
                              logits_of(m, child_imgs.new_imgs),
                              target_class, actual_class)
        sc == stopping_criterion(ev.new_target_logits, ev.new_actual_logits)
    IN  IF raised # "ok"
        THEN [outcome |-> raised, update_mask |-> Empty,
              parent_coords |-> p_coords, parent_pixel_vals |-> p_vals,
              child_coords |-> c_coords, child_pixel_values |-> c_vals,
              next_gen_coords |-> p_coords, next_gen_pixel_vals |-> p_vals,
              stop |-> FALSE, best_agent |-> NoAgent]
        ELSE [outcome |-> "ok", update_mask |-> ev.update_mask,
              parent_coords |-> p_coords, parent_pixel_vals |-> p_vals,
              child_coords |-> c_coords, child_pixel_values |-> c_vals,
              next_gen_coords |-> select_coords(ev.update_mask, c_coords, p_coords),
              next_gen_pixel_vals |-> select_pixel_vals(ev.update_mask, c_vals, p_vals),
              stop |-> sc.stop, best_agent |-> sc.best_agent]

-----------------------------------------------------------------------------
(* Spec: a driver that feeds each returned population to the next           *)
(* evolution_step, for at most MaxGen generations.                          *)

\* the classes of the attack
Attack == [target_class |-> 1, actual_class |-> 0]

\* the differential weights F_num / FDen with 0 < F <= 0.5
FNums == {n \in 1..FDen : 2 * n <= FDen}

BaseImage ==
    [c \in 0..(NumChannels - 1) |-> [x \in 0..(ImageSize - 1) |->
        [y \in 0..(ImageSize - 1) |-> ColorOne \div 2]]]

Models ==
    { [cls \in Classes |-> IF cls = Attack.target_class
                           THEN <<ImageSize - 1, 0>> ELSE <<0, 0>>],
      [cls \in Classes |-> IF cls = Attack.target_class
                           THEN <<0, 0>> ELSE <<ImageSize - 1, 0>>] }

\* initial populations: pixels on the first column of the image, at either
\* end of it, with colour 0.0 or 1.0
InitCoords ==
    { c \in [0..(NumCandidates - 1) -> [0..(NumPixels - 1) ->
                [0..1 -> {0, ImageSize - 1}]]] :
        \A k \in 0..(NumCandidates - 1) : \A j \in 0..(NumPixels - 1) : c[k][j][1] = 0 }

InitPixelVals ==
    { v \in [0..(NumCandidates - 1) -> [0..(NumPixels - 1) ->
                [0..(NumChannels - 1) -> {0, ColorOne}]]] :
        \A k \in 0..(NumCandidates - 1) : \A j \in 0..(NumPixels - 1) :
            \A c \in 0..(NumChannels - 1) : v[k][j][c] = v[k][j][0] }

\* The driver starts with its whole budget of generations on a population
\* whose pixels differ while the colours are all 1.0, or whose pixels are
\* all (0, 0) while the colours differ; it starts with one generation left
\* on a population whose pixels and colours may both differ.
InitPopulations(g) ==
    IF g = 0
    THEN { p \in InitCoords \X InitPixelVals :
             \/ \A k \in DOMAIN p[2] : \A j \in DOMAIN p[2][k] : p[2][k][j][0] = ColorOne
             \/ \A k \in DOMAIN p[1] : \A j \in DOMAIN p[1][k] : p[1][k][j][0] = 0 }
    ELSE { p \in InitCoords \X InitPixelVals :
             p[1][0][0][0] = 0 /\ p[1][1][0][0] = ImageSize - 1 }

NoRet == [outcome |-> "none"]

\* what the step before the last one returned as (stop, best_agent)
NoPrev == [returned |-> FALSE, stop |-> FALSE, best_agent |-> NoAgent]

Init ==
    /\ img = BaseImage
    /\ model \in Models
    /\ F \in FNums
    /\ gen \in {0, MaxGen - 1}
    /\ \E p \in InitPopulations(gen) :
          /\ parent_coords = p[1]
          /\ parent_pixel_vals = p[2]
    /\ pc = "ready"
    /\ i = 0
    /\ child_coords = Empty
    /\ child_pixel_values = Empty
    /\ ret = NoRet
    /\ prev = NoPrev
    /\ call = [fn |-> "none"]

ParentIdx(n) == [0..2 -> 0..(n - 2)]
Masks(p) == [0..(p - 1) -> BOOLEAN]

\* evolution_step is called on the current population
Begin ==
    /\ pc = "ready"
    /\ gen < MaxGen
    /\ pc' = "coords"
    /\ i' = 0
    /\ child_coords' = Empty
    /\ child_pixel_values' = Empty
    /\ UNCHANGED <<img, model, F, parent_coords, parent_pixel_vals, ret, prev, gen, call>>

\* generate_children(parent_coords, cr_prob, F, round_=True), iteration i
ChildCoords ==
    /\ pc = "coords"
    /\ \E parent_idx \in ParentIdx(len(parent_coords)) :
       \E mask \in Masks(len(parent_coords[0])) :
          child_coords' = append(child_coords,
              generate_child(parent_coords, i, parent_idx, mask, F, TRUE))
    /\ IF i + 1 < len(parent_coords)
       THEN i' = i + 1 /\ pc' = pc
       ELSE i' = 0 /\ pc' = "pixels"
    /\ UNCHANGED <<img, model, F, parent_coords, parent_pixel_vals,
                   child_pixel_values, ret, prev, gen, call>>

\* generate_children(parent_pixel_vals, cr_prob, F, round_=False), iteration i
ChildPixelValues ==
    /\ pc = "pixels"
    /\ \E parent_idx \in ParentIdx(len(parent_pixel_vals)) :
       \E mask \in Masks(len(parent_pixel_vals[0])) :
          child_pixel_values' = append(child_pixel_values,
              generate_child(parent_pixel_vals, i, parent_idx, mask, F, FALSE))
    /\ IF i + 1 < len(parent_pixel_vals)
       THEN i' = i + 1 /\ pc' = pc
       ELSE i' = 0 /\ pc' = "select"
    /\ UNCHANGED <<img, model, F, parent_coords, parent_pixel_vals,
                   child_coords, ret, prev, gen, call>>

\* repair, composite, evaluate, test for convergence, select and return;
\* the driver keeps the returned population
Select ==
    /\ pc = "select"
    /\ LET r == evolution_step(model, img, parent_coords, parent_pixel_vals,
                               child_coords, child_pixel_values,
                               Attack.target_class, Attack.actual_class)
       IN  /\ ret' = r
           /\ parent_coords' = r.next_gen_coords
           /\ parent_pixel_vals' = r.next_gen_pixel_vals
           /\ pc' = IF r.outcome = "ok" THEN "ready" ELSE "failed"
    /\ prev' = IF ret.outcome = "ok"
               THEN [returned |-> TRUE, stop |-> ret.stop, best_agent |-> ret.best_agent]
               ELSE NoPrev
    /\ gen' = gen + 1
    /\ child_coords' = Empty
    /\ child_pixel_values' = Empty
    /\ UNCHANGED <<img, model, F, i, call>>

Next == Begin \/ ChildCoords \/ ChildPixelValues \/ Select

Spec == Init /\ [][Next]_vars

-----------------------------------------------------------------------------
(* SpecCalls: each function is called on its own, on arguments drawn from   *)
(* small sets; call holds the arguments and the result of the call.         *)

Scores == {0, 1}

Batches(n) == [0..(n - 1) -> [Classes -> Scores]]
Vectors(n) == [0..(n - 1) -> Scores]

\* a population array of shape (n, 1, 1) whose candidates are all different
DistinctCandidates(n) ==
    { [k \in 0..(n - 1) |-> [j \in 0..0 |-> [d \in 0..0 |-> f[k]]]] :
        f \in { g \in [0..(n - 1) -> 0..n] :
                  \A a, b \in 0..(n - 1) : a # b => g[a] # g[b] } }

\* mutated coordinate values around the range -size < v <= 2*(size-1)
RepairValues == (-ImageSize - 1)..(2 * ImageSize)

\* an image whose pixels are all different and negative
LabelImage ==
    [c \in 0..1 |-> [x \in 0..(ImageSize - 1) |-> [y \in 0..(ImageSize - 1) |->
        -(1 + y + ImageSize * (x + ImageSize * c))]]]

\* pixel positions, two of them addressing the same pixel
SamplePositions ==
    { <<0, 0>>, <<ImageSize - 1, 1>>, <<-1, 1>>, <<1, -ImageSize>> }

SampleCoords ==
    { [n \in 0..(VariantAgents - 1) |-> [j \in 0..(VariantPixels - 1) |->
          [d \in 0..1 |-> f[n][j][d + 1]]]] :
        f \in [0..(VariantAgents - 1) -> [0..(VariantPixels - 1) -> SamplePositions]] }

\* colour vectors that name the candidate, the unit and the channel
LabelPixelVals ==
    [n \in 0..(VariantAgents - 1) |-> [j \in 0..(VariantPixels - 1) |->
        [c \in 0..1 |-> 1 + c + 2 * (j + VariantPixels * n)]]]

InitCalls ==
    /\ img = LabelImage
    /\ model = Empty
    /\ F = 0
    /\ parent_coords = Empty
    /\ parent_pixel_vals = Empty
    /\ pc = "calls"
    /\ i = 0
    /\ child_coords = Empty
    /\ child_pixel_values = Empty
    /\ ret = NoRet
    /\ prev = NoPrev
    /\ gen = 0
    /\ call = [fn |-> "none"]

\* a call returns once, and nothing but call changes
Frame ==
    /\ pc' = "returned"
    /\ UNCHANGED <<img, model, F, parent_coords, parent_pixel_vals, i,
                   child_coords, child_pixel_values, ret, prev, gen>>

CallGenerateChild ==
    /\ pc = "calls"
    /\ \E n \in 2..MaxBatch : \E cands \in DistinctCandidates(n) :
       \E idx \in 0..(n - 1) : \E parent_idx \in ParentIdx(n) :
       \E mask \in Masks(1) : \E F_num \in FNums :
          call' = [fn |-> "generate_children", parent_candidates |-> cands,
                   i |-> idx, parent_idx |-> parent_idx, mask |-> mask,
                   parents |-> sample_parents(cands, idx, parent_idx),
                   child |-> generate_child(cands, idx, parent_idx, mask, F_num, TRUE)]
    /\ Frame

CallRepairCoords ==
    /\ pc = "calls"
    /\ \E coords \in [0..0 -> [0..0 -> [0..1 -> RepairValues]]] :
          call' = [fn |-> "repair_coords", coords |-> coords, image_size |-> ImageSize,
                   ret |-> repair_coords(coords, ImageSize)]
    /\ Frame

CallGenerateImageVariants ==
    /\ pc = "calls"
    /\ \E coords \in SampleCoords :
          call' = [fn |-> "generate_image_variants", img_before |-> img,
                   coords |-> coords, pixel_vals |-> LabelPixelVals,
                   ret |-> generate_image_variants(img, coords, LabelPixelVals)]
    /\ Frame

CallEvaluationStep ==
    /\ pc = "calls"
    /\ \E np_ \in 1..MaxBatch : \E nc_ \in 1..MaxBatch :
       \E parent_logits \in Batches(np_) : \E child_logits \in Batches(nc_) :
       \E target_class \in Classes : \E actual_class \in Classes :
          call' = [fn |-> "evaluation_step", parent_logits |-> parent_logits,
                   child_logits |-> child_logits, target_class |-> target_class,
                   actual_class |-> actual_class,
                   ret |-> evaluation_step(parent_logits, child_logits,
                                           target_class, actual_class)]
    /\ Frame

CallStoppingCriterion ==
    /\ pc = "calls"
    /\ \E n \in 1..MaxBatch :
       \E target_logits \in Vectors(n) : \E actual_logits \in Vectors(n) :
          call' = [fn |-> "stopping_criterion", target_logits |-> target_logits,
                   actual_logits |-> actual_logits,
                   ret |-> stopping_criterion(target_logits, actual_logits)]
    /\ Frame

NextCalls ==
    \/ CallGenerateChild
    \/ CallRepairCoords
    \/ CallGenerateImageVariants
    \/ CallEvaluationStep
    \/ CallStoppingCriterion

SpecCalls == InitCalls /\ [][NextCalls]_vars

-----------------------------------------------------------------------------
(* Properties *)

\* the scalars of a population array
Components(arr) ==
    UNION { UNION { { arr[k][j][d] : d \in DOMAIN arr[k][j] } : j \in DOMAIN arr[k] } :
              k \in DOMAIN arr }

\* target-class score minus actual-class score of the variant of every
\* agent of a population
PopDivergence(coords, vals) ==
    divergence(logits_of(model, generate_image_variants(img, coords, vals).new_imgs),
               Attack.target_class, Attack.actual_class)

Winners(best_agent) == { best_agent.idx[n] : n \in 1..Len(best_agent.idx) }

EvalCall == call.fn = "evaluation_step"

\* C1: evaluation_step sets the mask entry of agent k if and only if the
\* divergence of child k is greater than or equal to that of parent k: a tie
\* selects the child, a strictly lower child divergence never does.
C1_SelectionRule ==
    (EvalCall /\ len(call.parent_logits) = len(call.child_logits)) =>
        /\ call.ret.outcome = "ok"
        /\ DOMAIN call.ret.update_mask = DOMAIN call.parent_logits
        /\ \A k \in DOMAIN call.parent_logits :
              LET t == call.target_class
                  a == call.actual_class
                  child_d == call.child_logits[k][t] - call.child_logits[k][a]
                  parent_d == call.parent_logits[k][t] - call.parent_logits[k][a]
              IN  call.ret.update_mask[k] <=> (child_d >= parent_d)

C1_Witness ==
    /\ EvalCall
    /\ len(call.parent_logits) = 3
    /\ len(call.child_logits) = 3
    /\ call.target_class = 1
    /\ call.actual_class = 0
    /\ call.child_logits[0][1] - call.child_logits[0][0]
         = call.parent_logits[0][1] - call.parent_logits[0][0]
    /\ call.ret.update_mask[0]
    /\ call.child_logits[1][1] - call.child_logits[1][0]
         < call.parent_logits[1][1] - call.parent_logits[1][0]
    /\ ~call.ret.update_mask[1]
    /\ call.child_logits[2][1] - call.child_logits[2][0]
         > call.parent_logits[2][1] - call.parent_logits[2][0]
    /\ call.ret.update_mask[2]

StopCall == call.fn = "stopping_criterion"

\* C2: stopping_criterion stops exactly when some agent has a target score
\* strictly greater than its actual score; the winners are then exactly the
\* agents with target > actual, and without such an agent there is no winner.
C2_StoppingCriterion ==
    StopCall =>
        LET W == { k \in DOMAIN call.target_logits :
                     call.target_logits[k] > call.actual_logits[k] }
        IN  /\ call.ret.stop <=> (W # {})
            /\ call.ret.stop =>
                  /\ ~call.ret.best_agent.none
                  /\ Winners(call.ret.best_agent) = W
                  /\ Len(call.ret.best_agent.idx) = Cardinality(W)
            /\ ~call.ret.stop => call.ret.best_agent = NoAgent

C2_Witness ==
    /\ StopCall
    /\ len(call.target_logits) = 3
    /\ call.target_logits[0] = call.actual_logits[0]
    /\ call.target_logits[1] > call.actual_logits[1]
    /\ call.target_logits[2] < call.actual_logits[2]
    /\ call.ret.stop
    /\ call.ret.best_agent.idx = <<1>>

\* C3: every coordinate of the population, as supplied and as returned by
\* every evolution_step, is an integer x with 0 <= x < image_size.
C3_CoordsInImage ==
    \A v \in Components(parent_coords) : 0 <= v /\ v < len(img[0])

RepairCall == call.fn = "repair_coords"

\* C4: for a mutated coordinate v with -size < v <= 2*(size-1) the repair
\* gives -v when v < 0, size-1-v when v > size-1 and v otherwise, one rule
\* at most per component, and the shape of the array is kept.
C4_SingleReflection ==
    RepairCall =>
        /\ DOMAIN call.ret = DOMAIN call.coords
        /\ \A k \in DOMAIN call.coords :
              /\ DOMAIN call.ret[k] = DOMAIN call.coords[k]
              /\ \A j \in DOMAIN call.coords[k] :
                    /\ DOMAIN call.ret[k][j] = DOMAIN call.coords[k][j]
                    /\ \A d \in DOMAIN call.coords[k][j] :
                          LET v == call.coords[k][j][d]
                              size == call.image_size
                          IN  (-size < v /\ v <= 2 * (size - 1)) =>
                                 call.ret[k][j][d] =
                                    IF v < 0 THEN -v
                                    ELSE IF v > size - 1 THEN size - 1 - v
                                    ELSE v

C4_Witness ==
    /\ RepairCall
    /\ call.coords[0][0][0] = -(call.image_size - 1)
    /\ call.ret[0][0][0] = call.image_size - 1
    /\ call.coords[0][0][1] = 2 * (call.image_size - 1)
    /\ call.ret[0][0][1] = -(call.image_size - 1)

ChildCall == call.fn = "generate_children"

\* C5: each of the three parents of child i is a candidate at a position
\* other than i; two of the three may be the same candidate.
C5_SelfExclusion ==
    ChildCall =>
        \A m \in 0..2 :
            /\ call.parents[m] # call.parent_candidates[call.i]
            /\ \E k \in DOMAIN call.parent_candidates :
                  k # call.i /\ call.parents[m] = call.parent_candidates[k]

C5_Witness ==
    /\ ChildCall
    /\ len(call.parent_candidates) = 3
    /\ call.i = 1
    /\ call.parents[0] = call.parent_candidates[2]
    /\ call.parents[1] = call.parent_candidates[0]
    /\ call.parents[2] = call.parent_candidates[0]
    /\ call.mask[0]

VariantsCall == call.fn = "generate_image_variants"

\* the units of candidate n that address pixel (x, y) of an H x W image
UnitsAt(coords, n, x, y, H, W) ==
    { j \in DOMAIN coords[n] :
        wrap_index(coords[n][j][0], H) = x /\ wrap_index(coords[n][j][1], W) = y }

SetMax(S) == CHOOSE m \in S : \A n \in S : n <= m

\* C6: generate_image_variants leaves the base image as it was; variant i is
\* the base image wherever none of agent i's units points, and holds at each
\* pixel an agent's unit points at that unit's colour vector in every channel
\* (the last unit listed, when several point at the pixel); the units of the
\* other agents leave no trace in variant i.
C6_VariantFrame ==
    VariantsCall =>
        /\ img = call.img_before
        /\ call.ret.outcome = "ok"
        /\ DOMAIN call.ret.new_imgs = DOMAIN call.coords
        /\ \A n \in DOMAIN call.coords : \A c \in DOMAIN img :
           \A x \in DOMAIN img[c] : \A y \in DOMAIN img[c][x] :
              LET units == UnitsAt(call.coords, n, x, y, len(img[c]), len(img[c][x]))
              IN  call.ret.new_imgs[n][c][x][y] =
                     IF units = {} THEN img[c][x][y]
                     ELSE call.pixel_vals[n][SetMax(units)][c]

C6_Witness ==
    /\ VariantsCall
    /\ call.ret.outcome = "ok"
    /\ call.coords[0][0] = [d \in 0..1 |-> IF d = 0 THEN ImageSize - 1 ELSE 1]
    /\ call.coords[0][1] = [d \in 0..1 |-> IF d = 0 THEN -1 ELSE 1]
    /\ call.coords[1][0] = [d \in 0..1 |-> 0]
    /\ call.coords[1][1] = [d \in 0..1 |-> IF d = 0 THEN 1 ELSE -ImageSize]
    /\ call.ret.new_imgs[0][1][ImageSize - 1][1] = call.pixel_vals[0][1][1]
    /\ call.ret.new_imgs[1][1][ImageSize - 1][1] = img[1][ImageSize - 1][1]
    /\ call.ret.new_imgs[0][0][0][0] = img[0][0][0]

\* C7: a call of evaluation_step on a parent batch and a child batch of
\* different sizes ends in an error and never returns a mask and scores.
C7_ShapeMismatchRaises ==
    (EvalCall /\ len(call.parent_logits) # len(call.child_logits)) =>
        call.ret.outcome # "ok"

Returned == ret.outcome = "ok"

\* C8: the population evolution_step returns takes, for every agent k, both
\* the coordinates and the colours of the repaired child k where the mask is
\* set, and both of parent k where it is not.
C8_OneMask ==
    Returned =>
        /\ parent_coords = ret.next_gen_coords
        /\ parent_pixel_vals = ret.next_gen_pixel_vals
        /\ DOMAIN ret.next_gen_coords = DOMAIN ret.parent_coords
        /\ DOMAIN ret.next_gen_pixel_vals = DOMAIN ret.parent_pixel_vals
        /\ \A k \in DOMAIN ret.parent_coords :
              IF ret.update_mask[k]
              THEN /\ ret.next_gen_coords[k] = ret.child_coords[k]
                   /\ ret.next_gen_pixel_vals[k] = ret.child_pixel_values[k]
              ELSE /\ ret.next_gen_coords[k] = ret.parent_coords[k]
                   /\ ret.next_gen_pixel_vals[k] = ret.parent_pixel_vals[k]

C8_Witness ==
    /\ Returned
    /\ \E k \in DOMAIN ret.parent_coords :
          /\ ret.update_mask[k]
          /\ ret.child_coords[k] # ret.parent_coords[k]
          /\ ret.child_pixel_values[k] # ret.parent_pixel_vals[k]
    /\ \E k \in DOMAIN ret.parent_coords :
          /\ ~ret.update_mask[k]
          /\ ret.child_coords[k] # ret.parent_coords[k]
          /\ ret.child_pixel_values[k] # ret.parent_pixel_vals[k]

\* C9: the divergence of agent k in the population a step returns is never
\* lower than that of agent k in the population the step received; and once
\* a step has returned stop with agent k among the winners, the next step
\* returns stop with k among the winners too.
C9_NeverLosesProgress ==
    Returned =>
        /\ \A k \in DOMAIN ret.parent_coords :
              PopDivergence(ret.next_gen_coords, ret.next_gen_pixel_vals)[k]
                 >= PopDivergence(ret.parent_coords, ret.parent_pixel_vals)[k]
        /\ prev.stop =>
              /\ ret.stop
              /\ Winners(prev.best_agent) \subseteq Winners(ret.best_agent)

C9_Witness ==
    /\ Returned
    /\ prev.stop
    /\ ret.stop
    /\ Winners(prev.best_agent) # Winners(ret.best_agent)
    /\ \E k \in DOMAIN ret.parent_coords : ~ret.update_mask[k]
    /\ \E k \in Winners(prev.best_agent) :
          PopDivergence(ret.next_gen_coords, ret.next_gen_pixel_vals)[k]
             > PopDivergence(ret.parent_coords, ret.parent_pixel_vals)[k]

\* C10: with 0 < F <= 0.5 every coordinate generate_image_variants receives,
\* of a parent or of a repaired child, lies in [-(image_size-1), image_size-1],
\* an index the image accepts, and no step ends in an index error.
C10_WritesAddressable ==
    /\ pc # "failed"
    /\ ret.outcome \in {"none", "ok"}
    /\ \A v \in Components(parent_coords) :
          -(len(img[0]) - 1) <= v /\ v <= len(img[0]) - 1
    /\ Returned =>
          \A v \in Components(ret.parent_coords) \cup Components(ret.child_coords) :
             /\ -(len(img[0]) - 1) <= v /\ v <= len(img[0]) - 1
             /\ valid_index(v, len(img[0]))

C10_Witness ==
    /\ Returned
    /\ gen = MaxGen
    /\ \E v \in Components(ret.parent_coords) : v < 0
    /\ \E v \in Components(ret.child_coords) : v = -(len(img[0]) - 1)

====
